---- MODULE Spec2Model ----
(***************************************************************************)
(* Model of the tapomap export route (src/app/api/export/route.ts).        *)
(*                                                                         *)
(* The source file holds two definitions of the POST handler:              *)
(*   handler 1 = lines 66-239, handler 2 = lines 321-478.                  *)
(* Which one serves a request is not fixed by the source, so the model     *)
(* picks it per request (variable handler).                                *)
(*                                                                         *)
(* Numbers.  A JavaScript number is modelled as a record                   *)
(*   [k |-> "fin", v |-> n]   a finite value                               *)
(*   [k |-> "nan", v |-> 0]   NaN                                          *)
(*   [k |-> "inf", v |-> s]   s = 1: +Infinity, s = -1: -Infinity          *)
(* Elevations and intervals are fixed point, in units of 1/Scale metre     *)
(* (the resolution of the Terrarium blue channel), so the decode law is    *)
(* exact.  The threshold planner computes in floating point: each of its   *)
(* operations (the quotient, the product, the sums of the loop) rounds its *)
(* exact result to Precision significant bits, to nearest, ties to even,   *)
(* as the doubles of the source do with 53 bits.  Tile-space coordinates   *)
(* are fixed point in units of 1/Sub pixel, i.e. 1/(Sub*TileSize) tile.    *)
(***************************************************************************)
EXTENDS Integers, Sequences, FiniteSets, TLC

\* ------------------------------------------------------------- constants
\* tileCount ceiling of the handler
MaxTiles == 64
\* smallest accepted sampling grid
MinGrid == 64
\* fixed zoom of the tiling scheme
Zoom == 12
\* denominator of the blue channel in the decode law = fixed-point unit
Scale == 256
\* offset of the decode law, in metres
TerrariumOffset == 32768
\* weight of the red channel in the decode law
RedWeight == 256
\* body defaults (Number(body.x ?? default))
DefaultWidthIn == 20
DefaultHeightIn == 12
DefaultIntervalM == 30
DefaultGrid == 256

\* ---------------------------------------------------------------- bounds
\* side of a tile in samples (256 in the source, scaled down)
TileSize == 2
\* sub-pixel resolution of the projected corner coordinates
Sub == 2
\* tile index of the north-west tile of the modelled selections
OriginX == 3
OriginY == 5
\* significant bits of a floating-point number (53 in the source, scaled down)
Precision == 10
\* clicks on the export button in one behaviour of the page
MaxClicks == 4

\* ---------------------------------------------------------- JS numbers
Fin(n) == [k |-> "fin", v |-> n]
NaN == [k |-> "nan", v |-> 0]
PosInf == [k |-> "inf", v |-> 1]
NegInf == [k |-> "inf", v |-> -1]
\* a body field that is absent (undefined)
Missing == [k |-> "missing", v |-> 0]

Metres(m) == Fin(m * Scale)

isFinite(a) == a.k = "fin"

\* a < b
NumLt(a, b) ==
    IF a.k = "nan" \/ b.k = "nan" THEN FALSE
    ELSE IF a.k = "fin" /\ b.k = "fin" THEN a.v < b.v
    ELSE IF a.k = "inf" /\ b.k = "inf" THEN a.v < b.v
    ELSE IF a.k = "inf" THEN a.v = -1
    ELSE b.v = 1

\* a <= b
NumLe(a, b) ==
    IF a.k = "nan" \/ b.k = "nan" THEN FALSE
    ELSE a = b \/ NumLt(a, b)

\* Math.min(a, b), Math.max(a, b): NaN if either argument is NaN
MathMin(a, b) ==
    IF a.k = "nan" \/ b.k = "nan" THEN NaN
    ELSE IF NumLt(b, a) THEN b ELSE a

MathMax(a, b) ==
    IF a.k = "nan" \/ b.k = "nan" THEN NaN
    ELSE IF NumLt(a, b) THEN b ELSE a

\* Number(x ?? d)
NumberOr(x, d) == IF x.k = "missing" THEN d ELSE x

\* the number of bits of a natural number
RECURSIVE BitLen(_)
BitLen(n) == IF n = 0 THEN 0 ELSE 1 + BitLen(n \div 2)

\* the floating-point number nearest to the exact value n (ties to even): what
\* an arithmetic operation whose exact result is n returns
Fl(n) ==
    LET m == IF n < 0 THEN 0 - n ELSE n
        e == BitLen(m) - Precision
    IN  IF e <= 0 THEN n
        ELSE LET q == m \div (2 ^ e)
                 r == m % (2 ^ e)
                 h == 2 ^ (e - 1)
                 up == IF r > h \/ (r = h /\ q % 2 = 1) THEN q + 1 ELSE q
             IN  IF n < 0 THEN 0 - up * (2 ^ e) ELSE up * (2 ^ e)

\* the quotient a / b lies d / b away from an integer whose neighbour on the
\* quotient's side has magnitude m: the division returns that integer when the
\* distance is at most half the spacing of the floating-point numbers there
RoundsToInteger(d, m, b) ==
    LET j == BitLen(m) - 1
    IN  IF j <= Precision THEN d * (2 ^ (Precision - j)) <= b
        ELSE d <= b * (2 ^ (j - Precision))

\* Math.floor(a / b) for b > 0: the floor of the rounded quotient, which is the
\* integer above the exact quotient when the division rounds up to it
QuotientFloor(a, b) ==
    LET k == a \div b
        c == k + 1
    IN  IF a % b = 0 \/ c = 0 THEN k
        ELSE IF RoundsToInteger(c * b - a, IF k >= 0 THEN k ELSE 0 - c, b) THEN c
        ELSE k

\* Math.ceil(a / b) for b > 0: the integer below the exact quotient when the
\* division rounds down to it
QuotientCeil(a, b) ==
    LET k == a \div b
    IN  IF a % b = 0 THEN k
        ELSE IF k # 0 /\ RoundsToInteger(a - k * b, IF k > 0 THEN k ELSE 0 - k - 1, b) THEN k
        ELSE k + 1

\* Math.floor(a / b) * b and Math.ceil(a / b) * b.  With a finite and b = +-Infinity
\* the quotient is +-0 and 0 * Infinity is NaN; with b = NaN the result is NaN.
\* The handler only evaluates them after intervalM <= 0 has been ruled out.
FloorTimes(a, b) ==
    IF a.k = "fin" /\ b.k = "fin" /\ b.v > 0 THEN Fin(Fl(QuotientFloor(a.v, b.v) * b.v))
    ELSE IF a.k = "inf" /\ b.k = "fin" /\ b.v > 0 THEN a
    ELSE NaN

CeilTimes(a, b) ==
    IF a.k = "fin" /\ b.k = "fin" /\ b.v > 0 THEN Fin(Fl(QuotientCeil(a.v, b.v) * b.v))
    ELSE IF a.k = "inf" /\ b.k = "fin" /\ b.v > 0 THEN a
    ELSE NaN

\* a + b for the cases the threshold loop meets
NumAdd(a, b) ==
    IF a.k = "nan" \/ b.k = "nan" THEN NaN
    ELSE IF a.k = "fin" /\ b.k = "fin" THEN Fin(Fl(a.v + b.v))
    ELSE IF a.k = "inf" /\ b.k = "inf" /\ a.v # b.v THEN NaN
    ELSE IF a.k = "inf" THEN a ELSE b

\* Math.round of a fixed-point value to whole metres (ties towards +Infinity)
RoundMetres(a) == (2 * a.v + Scale) \div (2 * Scale)

\* clamp(n, a, b) = Math.max(a, Math.min(b, n)) on integers
clamp(n, a, b) ==
    LET m == IF b < n THEN b ELSE n
    IN  IF a > m THEN a ELSE m

\* --------------------------------------------------------- tile geometry
\* fixed-point units per tile
U == Sub * TileSize
\* fixed-point extent of the world at the fixed zoom: n = 2 ** z tiles
World == (2 ^ Zoom) * U

\* lonLatToTile(lon, lat, z).  Longitude and latitude are given on the Mercator
\* scale of the tiling (fixed point, lon growing east, lat growing north), so
\* that x grows with lon and y falls as lat grows, as in the source.
lonLatToTile(lon, lat) == [x |-> lon, y |-> World - lat]

Min2(a, b) == IF a < b THEN a ELSE b
Max2(a, b) == IF a > b THEN a ELSE b

\* Math.floor of a fixed-point tile coordinate
FloorTile(c) == c \div U

\* a range taken from the corners in the order given, without Math.min / Math.max
TileRangeAsGiven(tl, br) ==
    [xMin |-> FloorTile(tl.x), xMax |-> FloorTile(br.x),
     yMin |-> FloorTile(tl.y), yMax |-> FloorTile(br.y)]

\* xMin, xMax, yMin, yMax of the handler
TileRange(tl, br) ==
    [xMin |-> FloorTile(Min2(tl.x, br.x)),
     xMax |-> FloorTile(Max2(tl.x, br.x)),
     yMin |-> FloorTile(Min2(tl.y, br.y)),
     yMax |-> FloorTile(Max2(tl.y, br.y))]

TileCount(r) == (r.xMax - r.xMin + 1) * (r.yMax - r.yMin + 1)

StitchedW(r) == (r.xMax - r.xMin + 1) * TileSize
StitchedH(r) == (r.yMax - r.yMin + 1) * TileSize

\* ------------------------------------------------------------ tile source
\* What the tile host serves.  A terrain is [n, lo, hi]: every tile is a PNG
\* holding n pixels of data (n = TileSize * TileSize for a full tile, fewer for
\* an undersized image); the pixel with index k encodes lo metres when the sum
\* of its column and row is even and hi metres when it is odd.
FullTile == TileSize * TileSize
Terrains ==
    { [n |-> FullTile, lo |-> 105, hi |-> 242],
      [n |-> FullTile, lo |-> 100, hi |-> 110],
      [n |-> FullTile, lo |-> 100, hi |-> 100],
      [n |-> FullTile, lo |-> 90, hi |-> 240],
      [n |-> 1, lo |-> 105, hi |-> 242] }

\* the three ways fetchPng(url) can end (lines 26-31): the decoded image, a
\* response that is not ok (throws), a body PNG.sync.read cannot decode (throws)
FetchResults == {"ok", "not_ok", "undecodable"}

\* png.data[i]: a byte, or undefined (Missing) past the end of the data
PngData(png, i) ==
    LET k == i \div 4
        c == i % 4
        m == IF ((k % TileSize) + (k \div TileSize)) % 2 = 0 THEN png.lo ELSE png.hi
        e == m + TerrariumOffset
    IN  IF k >= png.n THEN Missing
        ELSE IF c = 0 THEN Fin(e \div RedWeight)
        ELSE IF c = 1 THEN Fin(e % RedWeight)
        ELSE IF c = 2 THEN Fin(0)
        ELSE Fin(255)

\* decodeTerrarium(r, g, b) = r * 256 + g + b / 256 - 32768, in fixed point;
\* an undefined channel makes the sum NaN
decodeTerrarium(r, g, b) ==
    IF r.k # "fin" \/ g.k # "fin" \/ b.k # "fin" THEN NaN
    ELSE Fin((r.v * RedWeight + g.v - TerrariumOffset) * Scale + b.v)

\* the image the host serves for tile (x, y): the terrain, raised from tile to tile
\* so that no two tiles of a selection hold the same samples
TileAt(png, x, y) ==
    LET up == (x - OriginX) + MaxTiles * (y - OriginY)
    IN  [png EXCEPT !.lo = @ + up, !.hi = @ + up]

\* the sample of pixel (px, py) of a fetched tile (lines 118-119)
TileSample(png, px, py) ==
    LET si == (py * TileSize + px) * 4
    IN  decodeTerrarium(PngData(png, si), PngData(png, si + 1), PngData(png, si + 2))

\* a placement that mirrors each tile's columns
PlaceTileFlipped(raster, r, tx, ty, png) ==
    [c \in DOMAIN raster |->
        LET gx == c % StitchedW(r)
            gy == c \div StitchedW(r)
            px == gx - (tx - r.xMin) * TileSize
            py == gy - (ty - r.yMin) * TileSize
        IN  IF px >= 0 /\ px < TileSize /\ py >= 0 /\ py < TileSize
            THEN TileSample(png, TileSize - 1 - px, py)
            ELSE raster[c]]

\* the stitched raster after the pixel loops of tile (tx, ty) (lines 116-125):
\* cell gy * stitchedW + gx receives the sample (px, py)
PlaceTile(raster, r, tx, ty, png) ==
    [c \in DOMAIN raster |->
        LET gx == c % StitchedW(r)
            gy == c \div StitchedW(r)
            px == gx - (tx - r.xMin) * TileSize
            py == gy - (ty - r.yMin) * TileSize
        IN  IF px >= 0 /\ px < TileSize /\ py >= 0 /\ py < TileSize
            THEN TileSample(png, px, py)
            ELSE raster[c]]

\* ---------------------------------------------------------------- resample
\* pxWest, pxEast, pxNorth, pxSouth (lines 130-133), in units of 1/Sub pixel
PixelRect(tl, br, r) ==
    [west  |-> Min2(tl.x, br.x) - r.xMin * U,
     east  |-> Max2(tl.x, br.x) - r.xMin * U,
     north |-> Min2(tl.y, br.y) - r.yMin * U,
     south |-> Max2(tl.y, br.y) - r.yMin * U]

\* an index taken by truncation instead of rounding
RoundLerpFloor(a, b, i, n) == (a * (n - 1) + (b - a) * i) \div (Sub * (n - 1))

\* Math.round(a + (b - a) * (i / (n - 1))) for a, b in units of 1/Sub pixel:
\* the source coordinate of grid index i, rounded to the nearest sample index
\* (ties towards +Infinity)
RoundLerp(a, b, i, n) ==
    LET num == a * (n - 1) + (b - a) * i
        den == Sub * (n - 1)
    IN  (2 * num + den) \div (2 * den)

\* nearestSample(src, srcW, srcH, x, y) with x, y already rounded: the index read
NearestIndex(srcW, srcH, rx, ry) ==
    clamp(ry, 0, srcH - 1) * srcW + clamp(rx, 0, srcW - 1)

\* values[j * grid + i] after the sampling loops (lines 140-153): the sample
\* nearestSample reads for column i and row j.  The column read depends on i
\* alone and the row on j alone, so each is computed once per index.
SampleGrid(raster, r, rect, n) ==
    LET w == StitchedW(r)
        h == StitchedH(r)
        col == [i \in 0..(n - 1) |-> RoundLerp(rect.west, rect.east, i, n)]
        row == [j \in 0..(n - 1) |-> RoundLerp(rect.north, rect.south, j, n)]
    IN  [c \in 0..(n * n - 1) |-> raster[NearestIndex(w, h, col[c % n], row[c \div n])]]

\* The running minimum and maximum after the sampling loops, which start from
\* Infinity and -Infinity.  A sample is finite or NaN.
\* handler 1: if (v < minE) minE = v; if (v > maxE) maxE = v    (lines 150-151)
\*   a comparison with NaN is false, so NaN samples are passed over
\* handler 2: minE = Math.min(minE, v); maxE = Math.max(maxE, v) (lines 401-402)
\*   Math.min and Math.max return NaN once a sample is NaN
SampleSet(vals) == {vals[c] : c \in DOMAIN vals}
FiniteSamples(S) == {s.v : s \in {x \in S : x.k = "fin"}}
HasNaN(S) == \E s \in S : s.k = "nan"
Least(S) == CHOOSE x \in S : \A y \in S : x <= y
Greatest(S) == CHOOSE x \in S : \A y \in S : x >= y

RunningMin(h, vals) ==
    LET S == SampleSet(vals)
    IN  IF h = 2 /\ HasNaN(S) THEN NaN
        ELSE IF FiniteSamples(S) = {} THEN PosInf
        ELSE Fin(Least(FiniteSamples(S)))

RunningMax(h, vals) ==
    LET S == SampleSet(vals)
    IN  IF h = 2 /\ HasNaN(S) THEN NaN
        ELSE IF FiniteSamples(S) = {} THEN NegInf
        ELSE Fin(Greatest(FiniteSamples(S)))

\* the check of lines 155-157
Degenerate(minE, maxE) == ~isFinite(minE) \/ ~isFinite(maxE) \/ NumLe(maxE, minE)

\* ---------------------------------------------------------------- thresholds
\* for (let t = start + intervalM; t <= end; t += intervalM) thresholds.push(t)
\* the loop condition t <= end
InLoop(t, end) == NumLe(t, end)

RECURSIVE ThresholdLoop(_, _, _, _)
ThresholdLoop(t, end, step, acc) ==
    IF InLoop(t, end) THEN ThresholdLoop(NumAdd(t, step), end, step, Append(acc, t))
    ELSE acc

\* a loop that starts at start itself
FirstThresholdAtStart(start, step) == start

\* the loop's initial value t = start + intervalM
FirstThreshold(start, step) == NumAdd(start, step)

\* lines 160-164 / 408-412
PlanThresholds(minE, maxE, step) ==
    LET start == FloorTimes(minE, step)
        end == CeilTimes(maxE, step)
    IN  ThresholdLoop(FirstThreshold(start, step), end, step, <<>>)

\* ------------------------------------------------------------------ contours
\* a generator whose path needs a sample strictly above t
HasPathStrict(vals, t) == {v \in SampleSet(vals) : NumLt(t, v)} # {}

\* pathGen(f) for the contour feature of threshold t is a non-empty path exactly
\* when some sample is >= t (d3-contour counts NaN samples as below); otherwise
\* it is null and the loop continues (lines 188-189 / 430-431)
HasPath(vals, t) == {v \in SampleSet(vals) : NumLe(t, v)} # {}

\* ------------------------------------------------------------------- archive
\* file names, as the fields they are built from
LayerName(num, level) == [type |-> "layer", num |-> num, elev |-> RoundMetres(level)]
ReadmeName == [type |-> "readme", num |-> 0, elev |-> 0]

\* zip.file(name, data): adds the entry, replacing an entry of the same name
ZipFile(z, name, data) ==
    [f \in (DOMAIN z) \cup {name} |-> IF f = name THEN data ELSE z[f]]

EmptyZip == [f \in {} |-> 0]

\* layer numbers that start at 0
LayerNumberZeroBased(h, idx, layerIndex) == IF h = 1 THEN idx ELSE layerIndex - 1

\* the layer number written into the name of the feature at 0-based index idx
\* handler 1: idx + 1 (line 191); handler 2: the counter layerIndex (line 433)
LayerNumber(h, idx, layerIndex) == IF h = 1 THEN idx + 1 ELSE layerIndex

\* a README that counts one layer too many in handler 2 and every feature,
\* written or not, in handler 1
ReadmeCountOffByOne(h, written, layerIndex) == IF h = 1 THEN written + 1 ELSE layerIndex

\* the layer count the README reports
\* handler 1: written (line 217); handler 2: layerIndex - 1 (line 457)
ReadmeCount(h, written, layerIndex) == IF h = 1 THEN written ELSE layerIndex - 1

\* ------------------------------------------------------------------ requests
\* the bounds whose projected corners are (x0, y0) north-west and (x1, y1)
\* south-east, in fixed-point units from the corner of the origin tile
Rect(x0, y0, x1, y1) ==
    [k |-> "bounds",
     west  |-> OriginX * U + x0, east  |-> OriginX * U + x1,
     north |-> World - (OriginY * U + y0), south |-> World - (OriginY * U + y1)]

\* one whole tile, up to the last sub-pixel before the next tile
OneTile == Rect(0, 0, U - 1, U - 1)
\* two tiles by one, west and east given in swapped order
Swapped == Rect(2 * U - 1, 0, 0, U - 1)
\* 8 x 8 = 64 tiles and 5 x 13 = 65 tiles
Tiles64 == Rect(0, 0, 8 * U - 1, 8 * U - 1)
Tiles65 == Rect(0, 0, 5 * U - 1, 13 * U - 1)
\* a single point
Point == Rect(1, 1, 1, 1)
\* a strip of one tile that leaves out its first column of samples
Strip == Rect(Sub, 0, U - 1, U - 1)

\* selections sampled over every terrain, and selections that vary the geometry
TerrainSelections == {OneTile, Strip}
GeometrySelections == {Swapped, Point, Tiles64, Tiles65}

Intervals ==
    {Missing, NaN, PosInf, NegInf, Fin(0), Metres(-30), Metres(30), Metres(50)}

Body(b, w, h, iv, g) ==
    [json |-> TRUE, bounds |-> b, widthIn |-> w, heightIn |-> h, intervalM |-> iv, grid |-> g]

\* request bodies that exercise the validation of line 80
ValidationBodies ==
    { Body(b, w, h, iv, g) :
        b \in {Missing, OneTile}, w \in {Missing, Fin(0), Fin(-5)},
        h \in {Missing, Fin(0)}, iv \in Intervals, g \in {Fin(MinGrid - 1), Fin(MinGrid)} }

\* request bodies that exercise the pipeline
PipelineBodies ==
    { Body(b, Missing, Missing, iv, Fin(MinGrid)) :
        b \in TerrainSelections, iv \in {Metres(30), Metres(50)} }

\* request bodies that vary the selection, up to and past the tile-count ceiling
GeometryBodies ==
    { Body(b, Missing, Missing, Missing, Fin(MinGrid)) : b \in GeometrySelections }

\* a request whose body is not JSON: req.json() throws
BadJson == [json |-> FALSE, bounds |-> Missing, widthIn |-> Missing,
            heightIn |-> Missing, intervalM |-> Missing, grid |-> Missing]

FirstTerrain == [n |-> FullTile, lo |-> 105, hi |-> 242]

\* requests whose interval is not a whole number of metres, over terrains on
\* which the planner's quotients and sums are not exact: 774/256 m over
\* 16..17 m, 854/256 m over 10..12 m and 938/256 m over 9..11 m
RoundingCases ==
    { [body |-> Body(OneTile, Missing, Missing, Fin(774), Fin(MinGrid)),
       terrain |-> [n |-> FullTile, lo |-> 16, hi |-> 17]],
      [body |-> Body(OneTile, Missing, Missing, Fin(854), Fin(MinGrid)),
       terrain |-> [n |-> FullTile, lo |-> 10, hi |-> 12]],
      [body |-> Body(OneTile, Missing, Missing, Fin(938), Fin(MinGrid)),
       terrain |-> [n |-> FullTile, lo |-> 9, hi |-> 11]] }

\* --------------------------------------------------------------------- state
VARIABLES
    handler,     \* which definition of POST serves the request: 1 or 2
    body,        \* the request body
    terrain,     \* what the tile host serves
    pc,          \* position of the handler
    stages,      \* positions the handler has been at
    range,       \* xMin, xMax, yMin, yMax
    tx, ty,      \* loop counters of the stitching loops
    fetched,     \* tile addresses requested so far, in order
    stitched,    \* the stitched raster
    values,      \* the sample grid
    minE, maxE,  \* running minimum and maximum
    thresholds,  \* planned thresholds
    idx,         \* index of the next contour feature
    layerIndex,  \* handler 2: next layer number
    written,     \* handler 1: layers written
    zip,         \* the archive under construction
    failed,      \* tile addresses whose fetch threw, in order
    response,    \* the response returned, status 0 while there is none
    \* two requests served at the same time (specification SpecConcurrent)
    reqs,        \* per request: its body, loop counters, raster and position
    cache,       \* the fetch cache of the server: tile address -> decoded image
    hostUp,      \* whether the tile host answers with success at the moment
    \* the page (specification SpecPage, src/app/page.tsx)
    bounds,      \* the bounds state: FALSE while null, TRUE once the map set it
    busy,        \* the busy state
    statusMsg,   \* the status state (the message shown under the button)
    calls,       \* per invocation of exportTopo: its position
    downloads    \* archives handed to the browser so far

\* the state of one request, of the two concurrent requests, and of the page
rvars == <<handler, body, terrain, pc, stages, range, tx, ty, fetched, stitched,
           values, minE, maxE, thresholds, idx, layerIndex, written, zip, failed, response>>
cvars == <<reqs, cache, hostUp>>
pvars == <<bounds, busy, statusMsg, calls, downloads>>
vars == <<rvars, cvars, pvars>>

NoResponse == [status |-> 0, kind |-> "none", count |-> 0, zip |-> EmptyZip]

\* the parsed fields (lines 70-78)
widthIn == NumberOr(body.widthIn, Fin(DefaultWidthIn))
heightIn == NumberOr(body.heightIn, Fin(DefaultHeightIn))
intervalM == NumberOr(body.intervalM, Metres(DefaultIntervalM))
grid == NumberOr(body.grid, Fin(DefaultGrid))

\* !bounds || widthIn <= 0 || heightIn <= 0 || intervalM <= 0 || grid < 64
BadRequest ==
    \/ body.bounds.k = "missing"
    \/ NumLe(widthIn, Fin(0))
    \/ NumLe(heightIn, Fin(0))
    \/ NumLe(intervalM, Fin(0))
    \/ NumLt(grid, Fin(MinGrid))

\* tl, br (lines 88-89)
TopLeft == lonLatToTile(body.bounds.west, body.bounds.north)
BottomRight == lonLatToTile(body.bounds.east, body.bounds.south)

\* tileCount > 64
TooLarge(count) == count > MaxTiles

\* the count the 413 message carries: handler 1 writes tileCount into it
\* (line 99), handler 2's message has no number (line 352)
ReportedCount(h, count) == IF h = 1 THEN count ELSE 0

\* the single-request specification leaves the other two parts of the state alone
NoRequests == reqs = <<>> /\ cache = <<>> /\ hostUp = TRUE
NoPage == bounds = FALSE /\ busy = FALSE /\ statusMsg = "" /\ calls = <<>> /\ downloads = 0

Init ==
    /\ handler \in {1, 2}
    /\ \/ body \in ValidationBodies \cup GeometryBodies \cup {BadJson} /\ terrain = FirstTerrain
       \/ body \in PipelineBodies /\ terrain \in Terrains
       \/ \E c \in RoundingCases : body = c.body /\ terrain = c.terrain
    /\ pc = "start"
    /\ stages = {"start"}
    /\ range = [xMin |-> 0, xMax |-> 0, yMin |-> 0, yMax |-> 0]
    /\ tx = 0 /\ ty = 0
    /\ fetched = <<>>
    /\ stitched = <<>>
    /\ values = <<>>
    /\ minE = PosInf /\ maxE = NegInf
    /\ thresholds = <<>>
    /\ idx = 0 /\ layerIndex = 1 /\ written = 0
    /\ zip = EmptyZip
    /\ failed = <<>>
    /\ response = NoResponse
    /\ NoRequests
    /\ NoPage

Goto(p) == pc' = p /\ stages' = stages \cup {p}

\* return / catch: the handler ends with this response
Return(status, kind, count, z) ==
    /\ response' = [status |-> status, kind |-> kind, count |-> count, zip |-> z]
    /\ Goto("done")

\* req.json() throws: caught at line 236 / 475
JsonThrows ==
    /\ pc = "start" /\ ~body.json
    /\ Return(500, "export_error", 0, EmptyZip)
    /\ UNCHANGED <<cvars, pvars, handler, body, terrain, range, tx, ty, fetched, stitched, values,
                   minE, maxE, thresholds, idx, layerIndex, written, zip, failed>>

\* lines 80-82 / 335-337
RejectBadRequest ==
    /\ pc = "start" /\ body.json /\ BadRequest
    /\ Return(400, "bad_request", 0, EmptyZip)
    /\ UNCHANGED <<cvars, pvars, handler, body, terrain, range, tx, ty, fetched, stitched, values,
                   minE, maxE, thresholds, idx, layerIndex, written, zip, failed>>

\* lines 96-102 / 350-353
RejectTooLarge ==
    /\ pc = "start" /\ body.json /\ ~BadRequest
    /\ LET r == TileRange(TopLeft, BottomRight)
       IN  /\ TooLarge(TileCount(r))
           /\ range' = r
           /\ Return(413, "too_large", ReportedCount(handler, TileCount(r)), EmptyZip)
    /\ UNCHANGED <<cvars, pvars, handler, body, terrain, tx, ty, fetched, stitched, values,
                   minE, maxE, thresholds, idx, layerIndex, written, zip, failed>>

\* lines 104-111: allocate the zero-filled raster and enter the tile loops
BeginStitch ==
    /\ pc = "start" /\ body.json /\ ~BadRequest
    /\ LET r == TileRange(TopLeft, BottomRight)
       IN  /\ ~TooLarge(TileCount(r))
           /\ range' = r
           /\ stitched' = [c \in 0..(StitchedW(r) * StitchedH(r) - 1) |-> Fin(0)]
           /\ tx' = r.xMin /\ ty' = r.yMin
    /\ Goto("fetch")
    /\ UNCHANGED <<cvars, pvars, handler, body, terrain, fetched, values, minE, maxE, thresholds,
                   idx, layerIndex, written, zip, response, failed>>

\* the loop condition ty <= yMax of the stitching loops
MoreTiles == ty <= range.yMax

\* one iteration of the tile loops (lines 111-126) whose fetch succeeds
FetchTile ==
    /\ pc = "fetch" /\ MoreTiles
    /\ fetched' = Append(fetched, [x |-> tx, y |-> ty])
    /\ stitched' = PlaceTile(stitched, range, tx, ty, TileAt(terrain, tx, ty))
    /\ IF tx < range.xMax
       THEN tx' = tx + 1 /\ ty' = ty
       ELSE tx' = range.xMin /\ ty' = ty + 1
    /\ UNCHANGED <<cvars, pvars, handler, body, terrain, pc, stages, range, values, minE, maxE,
                   thresholds, idx, layerIndex, written, zip, response, failed>>

\* a handler that swallows the failure of a fetch and goes on to the next tile
FetchFailsSkipsTile ==
    /\ pc = "fetch" /\ MoreTiles
    /\ fetched' = Append(fetched, [x |-> tx, y |-> ty])
    /\ failed' = Append(failed, [x |-> tx, y |-> ty])
    /\ IF tx < range.xMax
       THEN tx' = tx + 1 /\ ty' = ty
       ELSE tx' = range.xMin /\ ty' = ty + 1
    /\ UNCHANGED <<cvars, pvars, handler, body, terrain, pc, stages, range, stitched, values, minE, maxE,
                   thresholds, idx, layerIndex, written, zip, response>>

\* one iteration whose fetchPng throws (line 28 or line 30): caught at line 236
FetchFails ==
    /\ pc = "fetch" /\ MoreTiles
    /\ \E result \in FetchResults \ {"ok"} :
         /\ fetched' = Append(fetched, [x |-> tx, y |-> ty])
         /\ failed' = Append(failed, [x |-> tx, y |-> ty])
         /\ Return(500, "export_error", 0, EmptyZip)
    /\ UNCHANGED <<cvars, pvars, handler, body, terrain, range, tx, ty, stitched, values, minE, maxE,
                   thresholds, idx, layerIndex, written, zip>>

\* lines 129-153 / 382-404
Resample ==
    /\ pc = "fetch" /\ ~MoreTiles
    /\ values' = SampleGrid(stitched, range, PixelRect(TopLeft, BottomRight, range), grid.v)
    /\ minE' = RunningMin(handler, values')
    /\ maxE' = RunningMax(handler, values')
    /\ Goto("sampled")
    /\ UNCHANGED <<cvars, pvars, handler, body, terrain, range, tx, ty, fetched, stitched,
                   thresholds, idx, layerIndex, written, zip, response, failed>>

\* handler 1 checks the range (line 155); handler 2 has no such check
ChecksRange(h) == h = 1

\* lines 155-157
RejectDegenerate ==
    /\ pc = "sampled" /\ ChecksRange(handler) /\ Degenerate(minE, maxE)
    /\ Return(502, "degenerate", 0, EmptyZip)
    /\ UNCHANGED <<cvars, pvars, handler, body, terrain, range, tx, ty, fetched, stitched, values,
                   minE, maxE, thresholds, idx, layerIndex, written, zip, failed>>

\* lines 159-164 / 408-412
Plan ==
    /\ pc = "sampled" /\ ~(ChecksRange(handler) /\ Degenerate(minE, maxE))
    /\ thresholds' = PlanThresholds(minE, maxE, intervalM)
    /\ Goto("planned")
    /\ UNCHANGED <<cvars, pvars, handler, body, terrain, range, tx, ty, fetched, stitched, values,
                   minE, maxE, idx, layerIndex, written, zip, response, failed>>

\* handler 1 checks for an empty plan (line 166); handler 2 has no such check
ChecksPlan(h) == h = 1

\* lines 166-168
RejectNoLayers ==
    /\ pc = "planned" /\ ChecksPlan(handler) /\ Len(thresholds) = 0
    /\ Return(400, "no_layers", 0, EmptyZip)
    /\ UNCHANGED <<cvars, pvars, handler, body, terrain, range, tx, ty, fetched, stitched, values,
                   minE, maxE, thresholds, idx, layerIndex, written, zip, failed>>

\* lines 170-183 / 414-427: the contour features, one per threshold, in order
Contour ==
    /\ pc = "planned" /\ ~(ChecksPlan(handler) /\ Len(thresholds) = 0)
    /\ idx' = 0 /\ layerIndex' = 1 /\ written' = 0
    /\ zip' = EmptyZip
    /\ Goto("layers")
    /\ UNCHANGED <<cvars, pvars, handler, body, terrain, range, tx, ty, fetched, stitched, values,
                   minE, maxE, thresholds, response, failed>>

\* one iteration of the feature loop that writes a layer (lines 185-207 / 429-447)
WriteLayer ==
    /\ pc = "layers" /\ idx < Len(thresholds)
    /\ LET level == thresholds[idx + 1]
       IN  /\ HasPath(values, level)
           /\ zip' = ZipFile(zip, LayerName(LayerNumber(handler, idx, layerIndex), level),
                             [level |-> level])
    /\ idx' = idx + 1
    /\ written' = IF handler = 1 THEN written + 1 ELSE written
    /\ layerIndex' = IF handler = 2 THEN layerIndex + 1 ELSE layerIndex
    /\ UNCHANGED <<cvars, pvars, handler, body, terrain, pc, stages, range, tx, ty, fetched, stitched,
                   values, minE, maxE, thresholds, response, failed>>

\* one iteration of the feature loop whose path is empty: continue (line 189 / 431)
SkipLayer ==
    /\ pc = "layers" /\ idx < Len(thresholds)
    /\ ~HasPath(values, thresholds[idx + 1])
    /\ idx' = idx + 1
    /\ UNCHANGED <<cvars, pvars, handler, body, terrain, pc, stages, range, tx, ty, fetched, stitched,
                   values, minE, maxE, thresholds, layerIndex, written, zip, response, failed>>

\* lines 209-222 / 449-462
WriteReadme ==
    /\ pc = "layers" /\ idx >= Len(thresholds)
    /\ zip' = ZipFile(zip, ReadmeName,
                      [minE |-> minE, maxE |-> maxE, interval |-> intervalM,
                       grid |-> grid, layers |-> ReadmeCount(handler, written, layerIndex)])
    /\ Goto("readme")
    /\ UNCHANGED <<cvars, pvars, handler, body, terrain, range, tx, ty, fetched, stitched, values,
                   minE, maxE, thresholds, idx, layerIndex, written, response, failed>>

\* lines 225-233 / 466-474
Respond ==
    /\ pc = "readme"
    /\ Return(200, "zip", 0, zip)
    /\ UNCHANGED <<cvars, pvars, handler, body, terrain, range, tx, ty, fetched, stitched, values,
                   minE, maxE, thresholds, idx, layerIndex, written, zip, failed>>

Next ==
    \/ JsonThrows
    \/ RejectBadRequest
    \/ RejectTooLarge
    \/ BeginStitch
    \/ FetchTile
    \/ FetchFails
    \/ Resample
    \/ RejectDegenerate
    \/ Plan
    \/ RejectNoLayers
    \/ Contour
    \/ WriteLayer
    \/ SkipLayer
    \/ WriteReadme
    \/ Respond

Spec == Init /\ [][Next]_vars

\* ------------------------------------------------- two concurrent requests
\* Two requests are served at the same time.  Each runs lines 66-127 on its own
\* locals; what they share is the tile host and the server's fetch cache, which
\* fetchPng opts into with cache: "force-cache" (line 27): a successful response
\* is stored under its URL and a later fetch of that URL is answered from the
\* store without asking the host.  The rest of the handler (lines 129-233) reads
\* the request's own raster only and is the subject of Spec.
Requests == 1..2

\* valid bodies within the tile ceiling: one tile, and two tiles that include it
ConcurrentBodies ==
    { Body(b, Missing, Missing, Missing, Fin(MinGrid)) : b \in {OneTile, Swapped} }

\* the single-request part of the state, at rest
NoSingleRequest ==
    /\ handler = 1 /\ body = BadJson /\ terrain = FirstTerrain
    /\ pc = "start" /\ stages = {"start"}
    /\ range = [xMin |-> 0, xMax |-> 0, yMin |-> 0, yMax |-> 0]
    /\ tx = 0 /\ ty = 0 /\ fetched = <<>> /\ stitched = <<>> /\ values = <<>>
    /\ minE = PosInf /\ maxE = NegInf /\ thresholds = <<>>
    /\ idx = 0 /\ layerIndex = 1 /\ written = 0
    /\ zip = EmptyZip /\ failed = <<>> /\ response = NoResponse

\* a request that has been received (line 66)
Received(b) ==
    [body |-> b, pc |-> "start",
     range |-> [xMin |-> 0, xMax |-> 0, yMin |-> 0, yMax |-> 0],
     tx |-> 0, ty |-> 0, stitched |-> <<>>, fetched |-> <<>>, masked |-> <<>>, status |-> 0]

InitConcurrent ==
    /\ NoSingleRequest
    /\ NoPage
    /\ reqs \in [Requests -> {Received(b) : b \in ConcurrentBodies}]
    /\ cache = <<>>
    /\ hostUp = TRUE

\* the cache after a successful response for the address was stored
CachePut(c, addr, png) ==
    [a \in (DOMAIN c) \cup {addr} |-> IF a = addr THEN png ELSE c[a]]

\* lines 88-111 of request p: tile range, raster, entry into the tile loops
CBegin(p) ==
    /\ reqs[p].pc = "start"
    /\ LET b == reqs[p].body.bounds
           r == TileRange(lonLatToTile(b.west, b.north), lonLatToTile(b.east, b.south))
       IN  /\ ~TooLarge(TileCount(r))
           /\ reqs' = [reqs EXCEPT ![p] =
                  [@ EXCEPT !.pc = "fetch", !.range = r, !.tx = r.xMin, !.ty = r.yMin,
                            !.stitched = [c \in 0..(StitchedW(r) * StitchedH(r) - 1) |-> Fin(0)]]]
    /\ UNCHANGED <<rvars, pvars, cache, hostUp>>

\* request p after the pixel loops of its current tile, decoded as png
CPlaced(q, png) ==
    [q EXCEPT !.fetched = Append(q.fetched, [x |-> q.tx, y |-> q.ty]),
              !.stitched = PlaceTile(q.stitched, q.range, q.tx, q.ty, png),
              !.tx = IF q.tx < q.range.xMax THEN q.tx + 1 ELSE q.range.xMin,
              !.ty = IF q.tx < q.range.xMax THEN q.ty ELSE q.ty + 1]

\* request p is in the tile loops, about to fetch the tile at its counters
CFetching(p) == reqs[p].pc = "fetch" /\ reqs[p].ty <= reqs[p].range.yMax

\* one iteration of request p whose fetch goes to the host and succeeds: the
\* response is stored in the cache
CFetchFromHost(p) ==
    /\ CFetching(p)
    /\ LET addr == [x |-> reqs[p].tx, y |-> reqs[p].ty]
       IN  /\ addr \notin DOMAIN cache
           /\ hostUp
           /\ cache' = CachePut(cache, addr, TileAt(terrain, addr.x, addr.y))
           /\ reqs' = [reqs EXCEPT ![p] = CPlaced(@, TileAt(terrain, addr.x, addr.y))]
    /\ UNCHANGED <<rvars, pvars, hostUp>>

\* one iteration of request p whose fetch is answered from the cache, whatever
\* the host would answer; masked records the addresses the host would have refused
CFetchFromCache(p) ==
    /\ CFetching(p)
    /\ LET addr == [x |-> reqs[p].tx, y |-> reqs[p].ty]
       IN  /\ addr \in DOMAIN cache
           /\ reqs' = [reqs EXCEPT ![p] =
                  [CPlaced(@, cache[addr]) EXCEPT
                      !.masked = IF hostUp THEN @ ELSE Append(@, addr)]]
    /\ UNCHANGED <<rvars, pvars, cache, hostUp>>

\* one iteration of request p whose fetchPng throws: caught at line 236
CFetchFails(p) ==
    /\ CFetching(p)
    /\ LET addr == [x |-> reqs[p].tx, y |-> reqs[p].ty]
       IN  /\ addr \notin DOMAIN cache
           /\ ~hostUp
           /\ reqs' = [reqs EXCEPT ![p] =
                  [@ EXCEPT !.fetched = Append(@, addr), !.pc = "done", !.status = 500]]
    /\ UNCHANGED <<rvars, pvars, cache, hostUp>>

\* the tile loops of request p end (line 127)
CStitched(p) ==
    /\ reqs[p].pc = "fetch" /\ reqs[p].ty > reqs[p].range.yMax
    /\ reqs' = [reqs EXCEPT ![p] = [@ EXCEPT !.pc = "stitched"]]
    /\ UNCHANGED <<rvars, pvars, cache, hostUp>>

\* the tile host starts to refuse requests, and recovers
HostGoesDown ==
    /\ hostUp /\ hostUp' = FALSE
    /\ UNCHANGED <<rvars, pvars, reqs, cache>>

HostComesUp ==
    /\ ~hostUp /\ hostUp' = TRUE
    /\ UNCHANGED <<rvars, pvars, reqs, cache>>

NextConcurrent ==
    \/ \E p \in Requests : CBegin(p)
    \/ \E p \in Requests : CFetchFromHost(p)
    \/ \E p \in Requests : CFetchFromCache(p)
    \/ \E p \in Requests : CFetchFails(p)
    \/ \E p \in Requests : CStitched(p)
    \/ HostGoesDown
    \/ HostComesUp

SpecConcurrent == InitConcurrent /\ [][NextConcurrent]_vars

\* ------------------------------------------------------------------ the page
\* src/app/page.tsx: the Home component and its exportTopo handler.  A call of
\* exportTopo is a record [pc, outcome]; pc is "marked" after lines 97-98,
\* "sent" while it awaits fetch (line 101), "text" while it awaits res.text()
\* (line 117), "blob" while it awaits res.blob() (line 121), "done" after the
\* finally block.  React commits the state updates of an event handler and of a
\* resumed continuation before the next event is dispatched, so busy is the
\* value the button is rendered with.
InitPage == NoSingleRequest /\ NoRequests /\ NoPage

\* disabled={!bounds || busy} (line 218)
ButtonDisabled == ~bounds \/ busy

\* a call is between its first and its last statement
Active(c) == c.pc # "done"

\* some call is in its synchronous part, which no other event interrupts
Running == \E k \in DOMAIN calls : calls[k].pc = "marked"

\* a setBusy that leaves the state as it is
SetBusyIgnored(v) == busy' = busy

\* setBusy(v)
SetBusy(v) == busy' = v

\* the map's load and moveend handlers call setBounds (lines 51-62)
UpdateBounds ==
    /\ ~Running /\ ~bounds
    /\ bounds' = TRUE
    /\ UNCHANGED <<rvars, cvars, busy, statusMsg, calls, downloads>>

\* a click on the enabled button: exportTopo up to line 98
ClickExport ==
    /\ ~Running /\ ~ButtonDisabled
    /\ Len(calls) < MaxClicks
    /\ bounds
    /\ SetBusy(TRUE)
    /\ statusMsg' = "Exporting"
    /\ calls' = Append(calls, [pc |-> "marked", outcome |-> "none"])
    /\ UNCHANGED <<rvars, cvars, bounds, downloads>>

\* lines 100-114: the request is sent and the call awaits it
SendRequest(k) ==
    /\ calls[k].pc = "marked"
    /\ calls' = [calls EXCEPT ![k].pc = "sent"]
    /\ UNCHANGED <<rvars, cvars, bounds, busy, statusMsg, downloads>>

\* catch and finally (lines 133-137)
Failed(k, why) ==
    /\ statusMsg' = "Export failed"
    /\ SetBusy(FALSE)
    /\ calls' = [calls EXCEPT ![k] = [pc |-> "done", outcome |-> why]]
    /\ UNCHANGED <<rvars, cvars, bounds, downloads>>

\* fetch rejects (network error)
FetchRejects(k) ==
    /\ ~Running /\ calls[k].pc = "sent"
    /\ Failed(k, "thrown")

\* fetch resolves with a response that is ok: the call awaits res.blob()
ResponseOk(k) ==
    /\ ~Running /\ calls[k].pc = "sent"
    /\ calls' = [calls EXCEPT ![k].pc = "blob"]
    /\ UNCHANGED <<rvars, cvars, bounds, busy, statusMsg, downloads>>

\* fetch resolves with a response that is not ok: the call awaits res.text()
\* (lines 116-117)
ResponseNotOk(k) ==
    /\ ~Running /\ calls[k].pc = "sent"
    /\ calls' = [calls EXCEPT ![k].pc = "text"]
    /\ UNCHANGED <<rvars, cvars, bounds, busy, statusMsg, downloads>>

\* res.text() settles: the throw of line 118, or its own rejection
TextSettles(k) ==
    /\ ~Running /\ calls[k].pc = "text"
    /\ Failed(k, "refused")

\* res.blob() resolves: the download, then finally (lines 121-137)
Downloaded(k) ==
    /\ ~Running /\ calls[k].pc = "blob"
    /\ downloads' = downloads + 1
    /\ statusMsg' = "Downloaded"
    /\ SetBusy(FALSE)
    /\ calls' = [calls EXCEPT ![k] = [pc |-> "done", outcome |-> "archive"]]
    /\ UNCHANGED <<rvars, cvars, bounds>>

\* res.blob() rejects
BlobRejects(k) ==
    /\ ~Running /\ calls[k].pc = "blob"
    /\ Failed(k, "thrown")

NextPage ==
    \/ UpdateBounds
    \/ ClickExport
    \/ \E k \in DOMAIN calls : SendRequest(k)
    \/ \E k \in DOMAIN calls : FetchRejects(k)
    \/ \E k \in DOMAIN calls : ResponseOk(k)
    \/ \E k \in DOMAIN calls : ResponseNotOk(k)
    \/ \E k \in DOMAIN calls : TextSettles(k)
    \/ \E k \in DOMAIN calls : Downloaded(k)
    \/ \E k \in DOMAIN calls : BlobRejects(k)

SpecPage == InitPage /\ [][NextPage]_vars

\* =================================================================== claims
\* the request passed JSON parsing and the validation of line 80
Valid == body.json /\ ~BadRequest

\* the number of tiles the request's selection needs
RequestTiles == TileCount(TileRange(TopLeft, BottomRight))

\* the tile addresses of a range in the order of the stitching loops
TileOrder(r) ==
    [k \in 1..TileCount(r) |->
        [x |-> r.xMin + ((k - 1) % (r.xMax - r.xMin + 1)),
         y |-> r.yMin + ((k - 1) \div (r.xMax - r.xMin + 1))]]

Layers(z) == {f \in DOMAIN z : f.type = "layer"}
Readmes(z) == {f \in DOMAIN z : f.type = "readme"}

\* C1: a selection of exactly 64 tiles proceeds to fetching; one of 65 or more is
\* refused with the area-too-large response, whose message carries the computed
\* tile count, and no tile is fetched for it; no export fetches more than 64 tiles.
C1_TileCeiling ==
    /\ Len(fetched) <= MaxTiles
    /\ (Valid /\ pc # "start" /\ RequestTiles <= MaxTiles) => "fetch" \in stages
    /\ (Valid /\ pc # "start" /\ RequestTiles > MaxTiles) =>
          /\ response.status = 413 /\ response.kind = "too_large"
          /\ response.count = RequestTiles
          /\ fetched = <<>>

\* C2: when the fetch of a tile fails, the export ends with the server-error
\* response and no archive: the failing tile is the last one requested, every
\* tile was requested at most once (in loop order), and no artifact exists.
C2_FetchFailureAborts ==
    failed # <<>> =>
        /\ pc = "done"
        /\ response.status = 500 /\ response.kind = "export_error"
        /\ Len(failed) = 1
        /\ Len(fetched) <= TileCount(range)
        /\ fetched = SubSeq(TileOrder(range), 1, Len(fetched))
        /\ fetched[Len(fetched)] = failed[1]
        /\ zip = EmptyZip /\ response.zip = EmptyZip

\* C2 witness: a fetch failed after some tiles had been fetched
C2_Witness == failed # <<>> /\ Len(fetched) > 2 /\ pc = "done"

\* C3: when the sampled grid has maxElevation <= minElevation (or no finite
\* range), the export fails with the degenerate-elevation response and no
\* archive; thresholds are never planned and contours never extracted.
C3_DegenerateRejected ==
    ("sampled" \in stages /\ Degenerate(minE, maxE)) =>
        /\ "planned" \notin stages /\ "layers" \notin stages
        /\ pc = "done" => (response.kind = "degenerate" /\ response.zip = EmptyZip)

\* C4: a request whose interval is <= 0 or not finite is rejected with the
\* bad-request (client error) response before any tile is fetched, and no
\* archive is produced.
C4_BadIntervalRejected ==
    (body.json /\ (~isFinite(intervalM) \/ NumLe(intervalM, Fin(0)))) =>
        /\ fetched = <<>>
        /\ "fetch" \notin stages
        /\ pc = "done" => (response.status = 400 /\ response.kind = "bad_request"
                           /\ response.zip = EmptyZip)

\* the range and interval are finite with min < max and interval > 0
ExactRange ==
    /\ isFinite(minE) /\ isFinite(maxE) /\ NumLt(minE, maxE)
    /\ isFinite(intervalM) /\ intervalM.v > 0

\* floor(min / interval) * interval and ceil(max / interval) * interval
FloorMultiple == (minE.v \div intervalM.v) * intervalM.v
CeilMultiple == (0 - ((0 - maxE.v) \div intervalM.v)) * intervalM.v

\* the multiples of step in the open interval (lo, hi), and in (lo, hi]
MultiplesBetween(lo, hi, step) ==
    {m \in {k * step : k \in (lo \div step)..(hi \div step + 1)} : lo < m /\ m < hi}
MultiplesUpTo(lo, hi, step) ==
    {m \in {k * step : k \in (lo \div step)..(hi \div step + 1)} : lo < m /\ m <= hi}

ThresholdValues == {thresholds[i].v : i \in 1..Len(thresholds)}
Ascending ==
    /\ \A i \in 1..Len(thresholds) : isFinite(thresholds[i])
    /\ \A i \in 1..(Len(thresholds) - 1) : thresholds[i].v < thresholds[i + 1].v

SpecExample == minE = Metres(105) /\ maxE = Metres(242) /\ intervalM = Metres(30)

\* the interval is a whole number of metres
WholeMetres == intervalM.v % Scale = 0

SameBucket == ExactRange /\ CeilMultiple - FloorMultiple = intervalM.v

\* C6: when min and max round into the same interval bucket (e.g. min=100,
\* max=110, interval=50) the export fails with the no-layers response and
\* produces no archive.
C6_SameBucketNoLayers ==
    ("planned" \in stages /\ SameBucket) =>
        /\ "layers" \notin stages
        /\ pc = "done" => (response.kind = "no_layers" /\ response.zip = EmptyZip)

\* C7: for min < max and a finite interval > 0 the plan is never empty, so an
\* export with a finite interval never ends in the no-layers response.
C7_PlanNonEmpty ==
    /\ ("planned" \in stages /\ ExactRange) => Len(thresholds) > 0
    /\ response.kind = "no_layers" => ~isFinite(intervalM)

\* C8: every planned threshold is greater than floor(min/interval)*interval and
\* greater than min, and no layer in the archive returned has a level at or
\* below the lowest sample of the grid.
C8_AboveMinimum ==
    /\ ("planned" \in stages /\ isFinite(minE) /\ isFinite(intervalM) /\ intervalM.v > 0) =>
          \A i \in 1..Len(thresholds) :
              /\ isFinite(thresholds[i])
              /\ thresholds[i].v > FloorMultiple
              /\ thresholds[i].v > minE.v
    /\ (response.status = 200 /\ Layers(response.zip) # {}) =>
          LET finite == FiniteSamples(SampleSet(values))
          IN  /\ finite # {}
              /\ \A f \in Layers(response.zip) : response.zip[f].level.v > Least(finite)

\* C9: in a successful export with N layers the layer numbers in the names are
\* exactly 1..N and a higher number carries a higher level, also when planned
\* thresholds were skipped as empty.
C9_LayerNumbering ==
    response.status = 200 =>
        LET L == Layers(response.zip)
        IN  /\ {f.num : f \in L} = 1..Cardinality(L)
            /\ \A f, g \in L :
                 f.num < g.num => response.zip[f].level.v < response.zip[g].level.v

\* C9 witness: several layers were written and a planned threshold was skipped
C9_Witness ==
    /\ response.status = 200
    /\ Cardinality(Layers(response.zip)) >= 2
    /\ Len(thresholds) > Cardinality(Layers(response.zip))

RegionNonEmpty(t) == \E c \in DOMAIN values : NumLe(t, values[c])

C12_StatusClasses ==
    pc = "done" =>
        \/ response.kind = "zip" /\ response.status = 200
        \/ response.kind = "bad_request" /\ response.status = 400
        \/ response.kind = "too_large" /\ response.status = 413
        \/ response.kind \in {"degenerate", "no_layers"} /\ response.status = 422
        \/ response.kind = "export_error" /\ response.status \in 500..599

\* C13: in every interleaving of two concurrent requests, each request ends as
\* it does when it runs alone against the same tile host: every tile it placed
\* in its raster was served to it by the host at the moment of its fetch, so no
\* tile that the host refused reached it through state another request wrote.
C13_RequestsIndependent ==
    \A p \in DOMAIN reqs :
        /\ reqs[p].masked = <<>>
        /\ \A a \in DOMAIN cache : cache[a] = TileAt(terrain, a.x, a.y)

\* the tile addresses of a range
Addresses(r) == {[x |-> x, y |-> y] : x \in r.xMin..r.xMax, y \in r.yMin..r.yMax}

\* C14: for all corner projections, also with the corners in swapped order, the
\* tile range has xMin <= xMax and yMin <= yMax and covers both corners; the tile
\* count of the ceiling check is (xMax-xMin+1)*(yMax-yMin+1), the number of
\* addresses of the range, and at least 1; corners that coincide on an axis give
\* a single tile index on that axis and the request goes on to fetching.
C14_TileRange ==
    (Valid /\ pc # "start") =>
        /\ range.xMin <= range.xMax /\ range.yMin <= range.yMax
        /\ \A c \in {TopLeft, BottomRight} :
             /\ FloorTile(c.x) \in range.xMin..range.xMax
             /\ FloorTile(c.y) \in range.yMin..range.yMax
        /\ \E c \in {TopLeft, BottomRight} : FloorTile(c.x) = range.xMin
        /\ \E c \in {TopLeft, BottomRight} : FloorTile(c.x) = range.xMax
        /\ \E c \in {TopLeft, BottomRight} : FloorTile(c.y) = range.yMin
        /\ \E c \in {TopLeft, BottomRight} : FloorTile(c.y) = range.yMax
        /\ TileCount(range) = Cardinality(Addresses(range))
        /\ TileCount(range) >= 1
        /\ (response.kind = "too_large" /\ handler = 1) => response.count = TileCount(range)
        /\ TopLeft.x = BottomRight.x => range.xMin = range.xMax
        /\ TopLeft.y = BottomRight.y => range.yMin = range.yMax
        /\ TopLeft = BottomRight => (TileCount(range) = 1 /\ "fetch" \in stages)

\* C14 witness: the corners were given in swapped order and the two tiles of the
\* selection were fetched west to east
C14_Witness ==
    /\ body.bounds = Swapped /\ TopLeft.x > BottomRight.x
    /\ Len(fetched) = 2 /\ fetched[1].x < fetched[2].x

\* the cell of the stitched raster that holds pixel (px, py) of tile a
CellOf(r, a, px, py) ==
    ((a.y - r.yMin) * TileSize + py) * StitchedW(r) + (a.x - r.xMin) * TileSize + px

\* C15: after stitching completes without a fetch failure every tile of the
\* range was fetched once, every cell of the raster belongs to exactly one pixel
\* of one fetched tile, and the cell at column (tx-xMin)*tileSize+px, row
\* (ty-yMin)*tileSize+py holds the decoded sample (px, py) of tile (tx, ty).
C15_Stitched ==
    pc = "sampled" =>
        LET Pixels == 0..(TileSize - 1)
        IN  /\ fetched = TileOrder(range)
            /\ DOMAIN stitched = 0..(StitchedW(range) * StitchedH(range) - 1)
            /\ \A c \in DOMAIN stitched :
                 Cardinality({k \in 1..Len(fetched) :
                     \E px, py \in Pixels : CellOf(range, fetched[k], px, py) = c}) = 1
            /\ \A a \in Addresses(range) : \A px, py \in Pixels :
                 stitched[CellOf(range, a, px, py)] = TileSample(TileAt(terrain, a.x, a.y), px, py)

\* C15 witness: a raster of 8 x 8 tiles was stitched
C15_Witness ==
    /\ pc = "sampled"
    /\ TileCount(range) = MaxTiles
    /\ stitched[0] # stitched[TileSize]

\* the integer nearest to the source coordinate of grid index i between a and b
\* (in units of 1/Sub pixel), a half counting upwards, clamped into 0..(size - 1)
NearestClamped(a, b, i, n, size) ==
    LET num == a * (n - 1) + (b - a) * i
        den == Sub * (n - 1)
        k == CHOOSE m \in -1..(size + 1) :
                 2 * m * den - den <= 2 * num /\ 2 * num < 2 * m * den + den
    IN  IF k < 0 THEN 0 ELSE IF k > size - 1 THEN size - 1 ELSE k

\* C16: when the sampling loops end, every grid cell (i, j) holds the sample read
\* at the raster index that is the round-to-nearest of the linearly interpolated
\* source coordinate, clamped into [0, width-1] x [0, height-1]; the index lies
\* inside the stitched raster, also when the east or south edge rounds up to the
\* raster width or height.
C16_NearestClamped ==
    pc = "sampled" =>
        LET n == grid.v
            w == StitchedW(range)
            h == StitchedH(range)
            rect == PixelRect(TopLeft, BottomRight, range)
            col == [i \in 0..(n - 1) |-> NearestClamped(rect.west, rect.east, i, n, w)]
            row == [j \in 0..(n - 1) |-> NearestClamped(rect.north, rect.south, j, n, h)]
        IN  /\ DOMAIN values = 0..(n * n - 1)
            /\ \A i \in 0..(n - 1) : col[i] \in 0..(w - 1) /\ row[i] \in 0..(h - 1)
            /\ \A c \in DOMAIN values :
                 /\ row[c \div n] * w + col[c % n] \in DOMAIN stitched
                 /\ values[c] = stitched[row[c \div n] * w + col[c % n]]

\* C16 witness: the east and south edges of the viewport round up to the raster
\* width and height, and the last cell of the grid was read at the last cell of
\* the raster
C16_Witness ==
    /\ pc = "sampled"
    /\ LET rect == PixelRect(TopLeft, BottomRight, range)
       IN  /\ RoundLerp(rect.west, rect.east, grid.v - 1, grid.v) = StitchedW(range)
           /\ RoundLerp(rect.north, rect.south, grid.v - 1, grid.v) = StitchedH(range)
    /\ values[grid.v * grid.v - 1] = stitched[StitchedW(range) * StitchedH(range) - 1]

\* C17: in an export that reaches contouring every planned threshold but the
\* last is strictly below maxElevation and has a non-empty region; the last one
\* is empty exactly when maxElevation is not a multiple of the interval; so the
\* thresholds with a non-empty region are the first ones of the list.
C17_OnlyLastDropped ==
    (pc = "layers" /\ idx = 0 /\ isFinite(maxE) /\ isFinite(intervalM)) =>
        LET n == Len(thresholds)
        IN  /\ \A i \in 1..(n - 1) :
                 NumLt(thresholds[i], maxE) /\ RegionNonEmpty(thresholds[i])
            /\ n > 0 => (~RegionNonEmpty(thresholds[n]) <=> maxE.v % intervalM.v # 0)
            /\ \A i \in 1..n : \A j \in 1..i :
                 RegionNonEmpty(thresholds[i]) => RegionNonEmpty(thresholds[j])

\* the calls of exportTopo whose request has been sent and has not settled
InFlight == {k \in DOMAIN calls : calls[k].pc \in {"sent", "text", "blob"}}

\* C18: busy is true from before the export request is sent until the request
\* has settled, and false again once it has, whether it ended in a download, a
\* response that is not ok or a thrown error; while busy is true the button is
\* disabled, and at most one export request is in flight.
C18_BusyGuardsExport ==
    /\ \A k \in InFlight : busy
    /\ busy <=> \E k \in DOMAIN calls : Active(calls[k])
    /\ busy => ButtonDisabled
    /\ Cardinality(InFlight) <= 1
    /\ Cardinality({k \in DOMAIN calls : Active(calls[k])}) <= 1

\* C18 witness: a second export is in flight after the first ended in a
\* download and busy had been reset
C18_Witness ==
    /\ Len(calls) = 2
    /\ calls[1] = [pc |-> "done", outcome |-> "archive"]
    /\ calls[2].pc = "sent"
    /\ busy

====
